---- MODULE Spec2Model ----
(***************************************************************************)
(* SkipList<unsigned, unsigned> of src/app/SkipList.hpp as a state machine. *)
(* The node graph is a heap: nodes maps the address of every allocated     *)
(* SkipNode to its fields, and next/previous/top/bottom hold addresses or   *)
(* NULL.  operator new returns a fresh address, named after what the node   *)
(* was allocated for so that two call orders building the same graph give   *)
(* the same heap.                                                           *)
(* Every public method is one action; a query records what it returned or   *)
(* that it threw in the variable result.  SpecStep runs insert one          *)
(* iteration of its promotion loop at a time, its locals held in call.      *)
(***************************************************************************)
EXTENDS Integers, Sequences, FiniteSets, TLC

\* ---------------------------------------------------------------- bounds
\* Spec: callers store any value of 1..MaxVal under the keys 0..MaxKey
MaxKey == 2
MaxVal == 2
\* SpecOrder: callers store 100 + k under the keys k of 0..MaxOrderKey
MaxOrderKey == 6

Keys == 0..MaxKey
Values == 1..MaxVal
OrderKeys == 0..MaxOrderKey
\* SpecStep: callers insert 0, 1, .., MaxStepKey in this order and MagicKey
\* at any point of it
MaxStepKey == 32

\* ------------------------------------------------------------- constants
\* nullptr
NULL == <<>>
\* Key() and Value() of the default SkipNode constructor (unsigned: 0)
DefaultKey == 0
DefaultValue == 0
\* the cutoff of insert while num_keys <= SmallListKeys
SmallListKeys == 16
SmallListFlips == 12
\* SpecFlip: the bytes of a key are 0, 255 or 2^i with i <= MaxFlipBit, a
\* string key has at most MaxStringLen chars, previousFlips <= MaxAttempt
MaxFlipBit == 3
MaxStringLen == 2
MaxAttempt == 9

\* MAGIC_VAL of the tests: the key whose coin flips are all heads
MagicKey == 255

\* the cutoff of the specification for an insert that brings the number
\* of keys to c: 12 if c <= 16, else 3 * ceil(log2(c))
SpecCeilLog2(c) == CHOOSE m \in 0..30 : 2 ^ m >= c /\ (m = 0 \/ 2 ^ (m - 1) < c)
SpecCutoff(c) == IF c <= 16 THEN 12 ELSE 3 * SpecCeilLog2(c)

VARIABLES
  nodes,       \* the heap: address -> SkipNode
  head,        \* SkipList::head : -inf sentinel of the top layer
  tail,        \* SkipList::tail : +inf sentinel of the top layer
  num_layers,  \* SkipList::num_layers
  num_keys,    \* SkipList::num_keys
  result,      \* outcome of the last call
  inserted,    \* history: the keys passed to insert so far
  trueCount,   \* history: the number of insert calls that returned true
  written,     \* history: key -> the value last stored for it by a caller
  cutoff,      \* history: key -> the cutoff the specification gives its insert
  call,        \* the locals of the insert call in progress (SpecStep)
  dtor         \* what the destructor has released, once it has run

list == <<nodes, head, tail, num_layers, num_keys>>
history == <<inserted, trueCount, written, cutoff>>
vars == <<nodes, head, tail, num_layers, num_keys, result, inserted, trueCount,
          written, cutoff, call, dtor>>

\* ------------------------------------------------------------- flipCoin
RECURSIVE XorBits(_, _, _)
\* bitwise XOR of the low n bits of a and b
XorBits(a, b, n) ==
  IF n = 0 THEN 0
  ELSE ((a + b) % 2) + 2 * XorBits(a \div 2, b \div 2, n - 1)

Xor8(a, b) == XorBits(a, b, 8)

\* the char c with next8Bits left out of the XOR
Fingerprint_ThreeBytes(key) ==
  LET first8Bits == (key \div 16777216) % 256
      andThen    == (key \div 256) % 256
      lastBits   == key % 256
  IN  Xor8(Xor8(first8Bits, andThen), lastBits)

\* the char c of flipCoin(unsigned, unsigned): XOR of the four bytes of key
Fingerprint(key) ==
  LET first8Bits == (key \div 16777216) % 256
      next8Bits  == (key \div 65536) % 256
      andThen    == (key \div 256) % 256
      lastBits   == key % 256
  IN  Xor8(Xor8(Xor8(first8Bits, next8Bits), andThen), lastBits)

RECURSIVE XorChars(_, _, _)
\* for (j = from; j < key.length(); j++) c = c ^ key[j];
XorChars(c, key, from) ==
  IF from > Len(key) THEN c
  ELSE XorChars(Xor8(c, key[from]), key, from + 1)

\* the char c of flipCoin(string, unsigned), key a sequence of char codes;
\* key[0] of an empty string is the terminating '\0'
FingerprintString(key) ==
  LET c == IF Len(key) = 0 THEN 0 ELSE key[1]
  IN  XorChars(c, key, 2)

flipCoinString(key, previousFlips) ==
  LET c == FingerprintString(key)
      b == previousFlips % 8
  IN  ((c \div (2 ^ b)) % 2) # 0

\* the oracle reading the bit after the one flipCoin reads
flipCoin_NextBit(key, previousFlips) ==
  LET c == Fingerprint(key)
      b == (previousFlips + 1) % 8
  IN  ((c \div (2 ^ b)) % 2) # 0

flipCoin(key, previousFlips) ==
  LET c == Fingerprint(key)
      b == previousFlips % 8
  IN  ((c \div (2 ^ b)) % 2) # 0

\* ------------------------------------------------------------- SkipNode
SkipNode(k, v) ==
  [key |-> k, value |-> v, p_inf |-> FALSE, n_inf |-> FALSE,
   next |-> NULL, previous |-> NULL, top |-> NULL, bottom |-> NULL]

\* new SkipNode: an address not in use in the heap ns.  An address is
\* <<kind, layer, key, copy>>, kind 0 for a node holding a key, 1 for a
\* -inf sentinel, 2 for a +inf sentinel; copy tells apart nodes allocated
\* for the same kind, layer and key.
New(ns, kind, layer, key) ==
  LET same == {a \in DOMAIN ns : a[1] = kind /\ a[2] = layer /\ a[3] = key}
  IN  <<kind, layer, key, Cardinality(same)>>

\* ------------------------------------------------------- shared traversal
RECURSIVE WalkRight_Strict(_, _, _)
\* the walk with k > temp->next->key: it stops in front of an equal key
WalkRight_Strict(ns, temp, k) ==
  IF ~ns[ns[temp].next].p_inf /\ k > ns[ns[temp].next].key
  THEN WalkRight_Strict(ns, ns[temp].next, k)
  ELSE temp

RECURSIVE WalkRight(_, _, _)
\* while (!temp->next->p_inf && k >= temp->next->key) temp = temp->next;
WalkRight(ns, temp, k) ==
  IF ~ns[ns[temp].next].p_inf /\ k >= ns[ns[temp].next].key
  THEN WalkRight(ns, ns[temp].next, k)
  ELSE temp

RECURSIVE Descend_NoBottomWalk(_, _, _)
\* the descent that does not walk right in layer 0
Descend_NoBottomWalk(ns, temp, k) ==
  IF ns[temp].bottom # NULL
  THEN IF ns[ns[temp].bottom].bottom = NULL
       THEN ns[temp].bottom
       ELSE Descend_NoBottomWalk(ns, WalkRight(ns, ns[temp].bottom, k), k)
  ELSE temp

RECURSIVE Descend(_, _, _)
\* while (temp->bottom) { temp = temp->bottom; <walk right> }
Descend(ns, temp, k) ==
  IF ns[temp].bottom # NULL
  THEN Descend(ns, WalkRight(ns, ns[temp].bottom, k), k)
  ELSE temp

RECURSIVE Bottom(_, _)
\* while (temp->bottom) temp = temp->bottom;
Bottom(ns, temp) ==
  IF ns[temp].bottom # NULL THEN Bottom(ns, ns[temp].bottom) ELSE temp

RECURSIVE LastReal(_, _)
\* while (temp->next->p_inf == false) temp = temp->next;
LastReal(ns, temp) ==
  IF ns[ns[temp].next].p_inf = FALSE THEN LastReal(ns, ns[temp].next) ELSE temp

RECURSIVE CountTop(_, _)
\* height = 1; while (temp->top) { temp = temp->top; height++; }
CountTop(ns, temp) ==
  IF ns[temp].top # NULL THEN 1 + CountTop(ns, ns[temp].top) ELSE 1

RECURSIVE CollectKeys(_, _)
\* while (temp->next->p_inf == false) { push_back(temp->next->key); temp = temp->next; }
CollectKeys(ns, temp) ==
  IF ns[ns[temp].next].p_inf = FALSE
  THEN <<ns[ns[temp].next].key>> \o CollectKeys(ns, ns[temp].next)
  ELSE <<>>

\* --------------------------------------------------------------- insert
\* the splice without temp->next->previous = n
SpliceAfter_NoBackLink(ns, temp, n) ==
  LET a == [ns EXCEPT ![n].next = ns[temp].next, ![n].previous = temp]
  IN  [a EXCEPT ![temp].next = n]

\* new_node->next = temp->next; new_node->previous = temp;
\* temp->next->previous = new_node; temp->next = new_node;
\* for a node n of the heap ns
SpliceAfter(ns, temp, n) ==
  LET a == [ns EXCEPT ![n].next = ns[temp].next, ![n].previous = temp]
      b == [a EXCEPT ![a[temp].next].previous = n]
  IN  [b EXCEPT ![temp].next = n]

RECURSIVE CeilLog2(_)
\* ceil(log2(n)) for n >= 1
CeilLog2(n) == IF n <= 1 THEN 0 ELSE 1 + CeilLog2((n + 1) \div 2)

\* max_flips without the branch for a small list
MaxFlips_NoSmallBranch(nk) == 3 * CeilLog2(nk)

\* max_flips with 16 in place of 12 for a small list
MaxFlips_Sixteen(nk) ==
  IF nk <= SmallListKeys THEN SmallListKeys ELSE 3 * CeilLog2(nk)

\* max_flips as it would be if computed before num_keys++
MaxFlips_CountBefore(nk) ==
  IF nk - 1 <= SmallListKeys THEN SmallListFlips ELSE 3 * CeilLog2(nk - 1)

\* max_flips as computed after num_keys++
MaxFlips(nk) ==
  IF nk <= SmallListKeys THEN SmallListFlips ELSE 3 * CeilLog2(nk)

\* one more sentinel-only layer, without tail = temp_tail
AddLayer_TailStays(st) ==
  LET temp_head == New(st.nodes, 1, st.num_layers, DefaultKey)
      temp_tail == New(st.nodes, 2, st.num_layers, DefaultKey)
      hn == [SkipNode(DefaultKey, DefaultValue) EXCEPT
               !.n_inf = TRUE, !.next = temp_tail, !.bottom = st.head]
      tn == [SkipNode(DefaultKey, DefaultValue) EXCEPT
               !.p_inf = TRUE, !.previous = temp_head, !.bottom = st.tail]
      a  == st.nodes @@ (temp_head :> hn) @@ (temp_tail :> tn)
      b  == [a EXCEPT ![st.head].top = temp_head, ![st.tail].top = temp_tail]
  IN  [st EXCEPT !.nodes = b, !.head = temp_head,
                 !.num_layers = st.num_layers + 1]

\* one more sentinel-only layer, counted twice in num_layers
AddLayer_CountTwice(st) ==
  LET temp_head == New(st.nodes, 1, st.num_layers, DefaultKey)
      temp_tail == New(st.nodes, 2, st.num_layers, DefaultKey)
      hn == [SkipNode(DefaultKey, DefaultValue) EXCEPT
               !.n_inf = TRUE, !.next = temp_tail, !.bottom = st.head]
      tn == [SkipNode(DefaultKey, DefaultValue) EXCEPT
               !.p_inf = TRUE, !.previous = temp_head, !.bottom = st.tail]
      a  == st.nodes @@ (temp_head :> hn) @@ (temp_tail :> tn)
      b  == [a EXCEPT ![st.head].top = temp_head, ![st.tail].top = temp_tail]
  IN  [st EXCEPT !.nodes = b, !.head = temp_head, !.tail = temp_tail,
                 !.num_layers = st.num_layers + 2]

\* the body of "if (height + 1 >= num_layers)": one more sentinel-only layer
AddLayer(st) ==
  LET temp_head == New(st.nodes, 1, st.num_layers, DefaultKey)
      temp_tail == New(st.nodes, 2, st.num_layers, DefaultKey)
      hn == [SkipNode(DefaultKey, DefaultValue) EXCEPT
               !.n_inf = TRUE, !.next = temp_tail, !.bottom = st.head]
      tn == [SkipNode(DefaultKey, DefaultValue) EXCEPT
               !.p_inf = TRUE, !.previous = temp_head, !.bottom = st.tail]
      a  == st.nodes @@ (temp_head :> hn) @@ (temp_tail :> tn)
      b  == [a EXCEPT ![st.head].top = temp_head, ![st.tail].top = temp_tail]
  IN  [st EXCEPT !.nodes = b, !.head = temp_head, !.tail = temp_tail,
                 !.num_layers = st.num_layers + 1]

RECURSIVE WalkLeft(_, _)
\* while (temp->previous && temp->top == nullptr) temp = temp->previous;
WalkLeft(ns, temp) ==
  IF ns[temp].previous # NULL /\ ns[temp].top = NULL
  THEN WalkLeft(ns, ns[temp].previous)
  ELSE temp

\* a layer added only once the promotion is two layers past the top
NeedsLayer_TooLate(height, layers) == height >= layers + 1

\* a layer added only once the promotion is past the top layer
NeedsLayer_Late(height, layers) == height + 1 > layers

\* a layer added at every promotion
NeedsLayer_Always(height, layers) == height + 1 >= 0

\* if (height + 1 >= num_layers), height already incremented
NeedsLayer(height, layers) == height + 1 >= layers

\* only new_node_top->bottom = new_node;
LinkVertical_OneWay(ns, new_node, new_node_top) ==
  [ns EXCEPT ![new_node_top].bottom = new_node]

\* new_node_top->bottom = new_node; new_node->top = new_node_top;
LinkVertical(ns, new_node, new_node_top) ==
  [ns EXCEPT ![new_node_top].bottom = new_node, ![new_node].top = new_node_top]

\* one iteration of the promotion loop of insert, on the loop state
\* st = [nodes, head, tail, num_layers, temp, new_node, height]
PromoteOnce(st, k, v) ==
  LET h1   == st.height + 1
      s1   == IF NeedsLayer(h1, st.num_layers) THEN AddLayer(st) ELSE st
      up   == s1.nodes[WalkLeft(s1.nodes, s1.temp)].top
      nt   == New(s1.nodes, 0, h1, k)
      a    == SpliceAfter(s1.nodes @@ (nt :> SkipNode(k, v)), up, nt)
      b    == LinkVertical(a, s1.new_node, nt)
  IN  [s1 EXCEPT !.nodes = b, !.temp = up, !.new_node = nt, !.height = h1]

\* the loop condition without the cutoff
PromoteCond_NoCutoff(k, height, max_flips) ==
  flipCoin(k, height)

\* the loop condition letting the tower reach max_flips + 1 nodes
PromoteCond_OffByOne(k, height, max_flips) ==
  flipCoin(k, height) /\ height + 1 <= max_flips

\* the condition of the promotion loop:
\* flipCoin(k, height) && height + 1 < max_flips
PromoteCond(k, height, max_flips) ==
  flipCoin(k, height) /\ height + 1 < max_flips

RECURSIVE PromoteLoop(_, _, _, _)
\* while (flipCoin(k, height) && height + 1 < max_flips) { ... }
PromoteLoop(st, k, v, max_flips) ==
  IF PromoteCond(k, st.height, max_flips)
  THEN PromoteLoop(PromoteOnce(st, k, v), k, v, max_flips)
  ELSE st

\* the duplicate test without the sentinel flag: temp->key == k
Duplicate_NoFlag(ns, temp, k) == ns[temp].key = k

\* if (!temp->n_inf && temp->key == k) return false;
Duplicate(ns, temp, k) == ~ns[temp].n_inf /\ ns[temp].key = k

\* insert of an absent key k, temp being where the descent ended: the
\* splice into layer 0, num_keys++, the cutoff and the promotion loop
\* the splice into layer 0 that also stores v in the predecessor temp
InsertStart_TouchesPredecessor(l, k, v, temp) ==
  LET new_node == New(l.nodes, 0, 0, k)
      ns  == SpliceAfter(l.nodes @@ (new_node :> SkipNode(k, v)), temp, new_node)
  IN  [nodes |-> [ns EXCEPT ![temp].value = v], head |-> l.head,
       tail |-> l.tail, num_layers |-> l.num_layers, temp |-> temp,
       new_node |-> new_node, height |-> 0]

\* insert of an absent key up to the promotion loop: the splice into
\* layer 0 after temp and height = 0, as the state the loop starts from
InsertStart(l, k, v, temp) ==
  LET new_node == New(l.nodes, 0, 0, k)
      ns  == SpliceAfter(l.nodes @@ (new_node :> SkipNode(k, v)), temp, new_node)
  IN  [nodes |-> ns, head |-> l.head, tail |-> l.tail,
       num_layers |-> l.num_layers, temp |-> temp,
       new_node |-> new_node, height |-> 0]

InsertNew(l, k, v, temp) ==
  LET nk  == l.num_keys + 1
      st  == PromoteLoop(InsertStart(l, k, v, temp), k, v, MaxFlips(nk))
  IN  [list |-> [nodes |-> st.nodes, head |-> st.head, tail |-> st.tail,
                 num_layers |-> st.num_layers, num_keys |-> nk],
       ret |-> TRUE]

\* insert that stores the new value when the key is already present
InsertOp_Overwrite(l, k, v) ==
  LET temp == Descend(l.nodes, l.head, k)
  IN  IF Duplicate(l.nodes, temp, k)
      THEN [list |-> [l EXCEPT !.nodes[temp].value = v], ret |-> FALSE]
      ELSE InsertNew(l, k, v, temp)

\* insert(k, v) on the list l = [nodes, head, tail, num_layers, num_keys]:
\* the list after the call and the value returned
InsertOp(l, k, v) ==
  LET temp == Descend(l.nodes, l.head, k)
  IN  IF Duplicate(l.nodes, temp, k)
      THEN [list |-> l, ret |-> FALSE]
      ELSE InsertNew(l, k, v, temp)

\* the list held by the variables
Cur == [nodes |-> nodes, head |-> head, tail |-> tail,
        num_layers |-> num_layers, num_keys |-> num_keys]

\* ------------------------------------------------------ outcome records
\* what a call did: threw RuntimeException, or returned a bool, a number
\* (a key, a value, a count) or a sequence of keys
\* ----------------------------------------------------------- ~SkipList
\* d = [freed: the addresses given to delete, in order; stale: a node
\* was read, or given to delete, after it had been given to delete]
Released(d, a) == \E i \in 1..Len(d.freed) : d.freed[i] = a

RECURSIVE FreeLayer_KeepLast(_, _, _)
\* the inner loop stopping in front of the last node of the layer
FreeLayer_KeepLast(ns, temp, d) ==
  IF ns[temp].next = NULL THEN d
  ELSE FreeLayer_KeepLast(ns, ns[temp].next,
                          [d EXCEPT !.stale = @ \/ Released(d, temp),
                                    !.freed = Append(@, temp)])

RECURSIVE FreeLayer(_, _, _)
\* while (temp) { temp2 = temp; temp = temp->next; delete temp2; }
FreeLayer(ns, temp, d) ==
  IF temp = NULL THEN d
  ELSE FreeLayer(ns, ns[temp].next,
                 [d EXCEPT !.stale = @ \/ Released(d, temp),
                           !.freed = Append(@, temp)])

RECURSIVE FreeLayers(_, _, _)
\* while (head) { temp = head; head = head->bottom; <inner loop> }
FreeLayers(ns, h, d) ==
  IF h = NULL THEN d
  ELSE FreeLayers(ns, ns[h].bottom,
                  FreeLayer(ns, h, [d EXCEPT !.stale = @ \/ Released(d, h)]))

Outcome(op, k) ==
  [op |-> op, key |-> k, thrown |-> FALSE, bool |-> FALSE, num |-> 0, keys |-> <<>>]
Threw(op, k)      == [Outcome(op, k) EXCEPT !.thrown = TRUE]
RetBool(op, k, b) == [Outcome(op, k) EXCEPT !.bool = b]
RetNum(op, k, n)  == [Outcome(op, k) EXCEPT !.num = n]
RetKeys(op, ks)   == [Outcome(op, -1) EXCEPT !.keys = ks]

\* -------------------------------------------------------------- queries
sizeOp      == RetNum("size", -1, num_keys)
isEmptyOp   == RetBool("isEmpty", -1, num_keys = 0)
numLayersOp == RetNum("numLayers", -1, num_layers)

\* height without the sentinel test: temp->key != k alone decides
heightOp_NoFlag(k) ==
  LET temp == Descend(nodes, head, k)
  IN  IF nodes[temp].key # k
      THEN Threw("height", k)
      ELSE RetNum("height", k, CountTop(nodes, temp))

heightOp(k) ==
  LET temp == Descend(nodes, head, k)
  IN  IF nodes[temp].key # k \/ nodes[temp].n_inf
      THEN Threw("height", k)
      ELSE RetNum("height", k, CountTop(nodes, temp))

\* nextKey without the test for the +inf sentinel
nextKeyOp_NoEnd(k) ==
  LET temp == Descend(nodes, head, k)
  IN  IF nodes[temp].key # k \/ nodes[temp].n_inf
      THEN Threw("nextKey", k)
      ELSE RetNum("nextKey", k, nodes[nodes[temp].next].key)

nextKeyOp(k) ==
  LET temp == Descend(nodes, head, k)
  IN  IF nodes[temp].key # k \/ nodes[temp].n_inf \/ nodes[nodes[temp].next].p_inf
      THEN Threw("nextKey", k)
      ELSE RetNum("nextKey", k, nodes[nodes[temp].next].key)

\* previousKey returning the key two nodes back
previousKeyOp_TwoBack(k) ==
  LET temp == Descend(nodes, head, k)
  IN  IF nodes[temp].key # k \/ nodes[temp].n_inf \/ nodes[nodes[temp].previous].n_inf
      THEN Threw("previousKey", k)
      ELSE RetNum("previousKey", k, nodes[nodes[nodes[temp].previous].previous].key)

previousKeyOp(k) ==
  LET temp == Descend(nodes, head, k)
  IN  IF nodes[temp].key # k \/ nodes[temp].n_inf \/ nodes[nodes[temp].previous].n_inf
      THEN Threw("previousKey", k)
      ELSE RetNum("previousKey", k, nodes[nodes[temp].previous].key)

\* const Value &find(Key k) const
findConstOp(k) ==
  LET temp == Descend(nodes, head, k)
  IN  IF nodes[temp].key = k /\ ~nodes[temp].n_inf
      THEN RetNum("findConst", k, nodes[temp].value)
      ELSE Threw("findConst", k)

RECURSIVE TowerTop(_, _)
TowerTop(ns, temp) ==
  IF ns[temp].top # NULL THEN TowerTop(ns, ns[temp].top) ELSE temp

\* find handing out the topmost node of the key's tower
findRef_Top(k) ==
  LET temp == Descend(nodes, head, k)
  IN  IF nodes[temp].key = k /\ ~nodes[temp].n_inf
      THEN TowerTop(nodes, temp) ELSE NULL

\* Value &find(const Key &k): the node whose value the returned reference
\* designates, NULL when the call throws
findRef(k) ==
  LET temp == Descend(nodes, head, k)
  IN  IF nodes[temp].key = k /\ ~nodes[temp].n_inf THEN temp ELSE NULL

findOp(k) ==
  IF findRef(k) # NULL
  THEN RetNum("find", k, nodes[findRef(k)].value)
  ELSE Threw("find", k)

allKeysInOrderOp ==
  RetKeys("allKeysInOrder", CollectKeys(nodes, Bottom(nodes, head)))

isSmallestKeyOp(k) ==
  LET temp == Bottom(nodes, head)
  IN  RetBool("isSmallestKey", k, nodes[nodes[temp].next].key = k)

\* isLargestKey that does not walk to the end of layer 0
isLargestKeyOp_NoWalk(k) ==
  LET temp == Bottom(nodes, head)
  IN  RetBool("isLargestKey", k, nodes[nodes[temp].next].key = k)

isLargestKeyOp(k) ==
  LET temp == LastReal(nodes, Bottom(nodes, head))
  IN  RetBool("isLargestKey", k, nodes[temp].key = k)

\* -------------------------------------------------------- initial state
\* SkipList(): head -> tail on top of temp_head -> temp_tail
InitHead == <<1, 1, DefaultKey, 0>>
InitTail == <<2, 1, DefaultKey, 0>>
InitTempHead == <<1, 0, DefaultKey, 0>>
InitTempTail == <<2, 0, DefaultKey, 0>>

\* the constructor without temp_head->top = head; temp_tail->top = tail;
InitNodes_Unlinked ==
  (InitHead :> [SkipNode(DefaultKey, DefaultValue) EXCEPT
                  !.n_inf = TRUE, !.next = InitTail, !.bottom = InitTempHead])
  @@ (InitTail :> [SkipNode(DefaultKey, DefaultValue) EXCEPT
                  !.p_inf = TRUE, !.previous = InitHead, !.bottom = InitTempTail])
  @@ (InitTempHead :> [SkipNode(DefaultKey, DefaultValue) EXCEPT
                  !.n_inf = TRUE, !.next = InitTempTail])
  @@ (InitTempTail :> [SkipNode(DefaultKey, DefaultValue) EXCEPT
                  !.p_inf = TRUE, !.previous = InitTempHead])

\* the four sentinels of the constructor
InitNodes ==
  (InitHead :> [SkipNode(DefaultKey, DefaultValue) EXCEPT
                  !.n_inf = TRUE, !.next = InitTail, !.bottom = InitTempHead])
  @@ (InitTail :> [SkipNode(DefaultKey, DefaultValue) EXCEPT
                  !.p_inf = TRUE, !.previous = InitHead, !.bottom = InitTempTail])
  @@ (InitTempHead :> [SkipNode(DefaultKey, DefaultValue) EXCEPT
                  !.n_inf = TRUE, !.next = InitTempTail, !.top = InitHead])
  @@ (InitTempTail :> [SkipNode(DefaultKey, DefaultValue) EXCEPT
                  !.p_inf = TRUE, !.previous = InitTempHead, !.top = InitTail])

\* no insert call in progress
Idle ==
  [active |-> FALSE, k |-> DefaultKey, v |-> DefaultValue, temp |-> NULL,
   new_node |-> NULL, height |-> 0, max_flips |-> 0, entry_layers |-> 0]

\* the destructor has not run
Alive == [done |-> FALSE, freed |-> <<>>, stale |-> FALSE]

Init ==
  /\ nodes = InitNodes
  /\ head = InitHead
  /\ tail = InitTail
  /\ num_layers = 2
  /\ num_keys = 0
  /\ result = Outcome("SkipList", -1)
  /\ inserted = {}
  /\ trueCount = 0
  /\ written = [x \in {} |-> DefaultValue]
  /\ cutoff = [x \in {} |-> 0]
  /\ call = Idle
  /\ dtor = Alive

\* -------------------------------------------------------------- actions
\* a const method, called while no insert is running
Query(r) == ~call.active /\ result' = r /\ UNCHANGED <<list, history, call, dtor>>

Size           == Query(sizeOp)
IsEmpty        == Query(isEmptyOp)
NumLayers      == Query(numLayersOp)
Height(k)      == Query(heightOp(k))
NextKey(k)     == Query(nextKeyOp(k))
PreviousKey(k) == Query(previousKeyOp(k))
Find(k)        == Query(findOp(k))
FindConst(k)   == Query(findConstOp(k))
AllKeysInOrder == Query(allKeysInOrderOp)
IsSmallestKey(k) == Query(isSmallestKeyOp(k))
IsLargestKey(k)  == Query(isLargestKeyOp(k))

\* unsigned &value = sl.find(k); value = v;
FindAssign(k, v) ==
  LET ref == findRef(k)
  IN  /\ ~call.active
      /\ IF ref # NULL
         THEN /\ nodes' = [nodes EXCEPT ![ref].value = v]
              /\ written' = [x \in DOMAIN written \cup {k} |->
                               IF x = k THEN v ELSE written[x]]
              /\ result' = RetNum("findAssign", k, v)
         ELSE /\ UNCHANGED <<nodes, written>>
              /\ result' = Threw("findAssign", k)
      /\ UNCHANGED <<head, tail, num_layers, num_keys, inserted, trueCount,
                     cutoff, call, dtor>>

\* history: the key, the value and the cutoff of an insert(k, v) call
Record(k, v) ==
  /\ inserted' = inserted \cup {k}
  /\ written' = IF k \in inserted THEN written
                ELSE [x \in DOMAIN written \cup {k} |->
                        IF x = k THEN v ELSE written[x]]
  /\ cutoff' = IF k \in inserted THEN cutoff
               ELSE [x \in DOMAIN cutoff \cup {k} |->
                       IF x = k THEN SpecCutoff(Cardinality(inserted) + 1)
                       ELSE cutoff[x]]

Insert(k, v) ==
  LET r == InsertOp(Cur, k, v)
  IN  /\ ~call.active
      /\ nodes' = r.list.nodes
      /\ head' = r.list.head
      /\ tail' = r.list.tail
      /\ num_layers' = r.list.num_layers
      /\ num_keys' = r.list.num_keys
      /\ result' = [RetBool("insert", k, r.ret) EXCEPT !.num = v]
      /\ trueCount' = IF r.ret THEN trueCount + 1 ELSE trueCount
      /\ Record(k, v)
      /\ UNCHANGED <<call, dtor>>

\* ~SkipList(): the nodes given to delete leave the heap, head ends null
Destroy ==
  LET d == FreeLayers(nodes, head, dtor)
  IN  /\ ~call.active
      /\ ~dtor.done
      /\ dtor' = [d EXCEPT !.done = TRUE]
      /\ nodes' = [a \in {b \in DOMAIN nodes : ~Released(d, b)} |-> nodes[a]]
      /\ head' = NULL
      /\ result' = Outcome("~SkipList", -1)
      /\ UNCHANGED <<tail, num_layers, num_keys, history, call>>

\* insert(k, v) up to the first test of the loop condition
InsertBegin(k, v) ==
  LET temp == Descend(nodes, head, k)
      st   == InsertStart(Cur, k, v, temp)
  IN  /\ ~call.active
      /\ Record(k, v)
      /\ UNCHANGED dtor
      /\ IF Duplicate(nodes, temp, k)
         THEN /\ result' = [RetBool("insert", k, FALSE) EXCEPT !.num = v]
              /\ UNCHANGED <<list, trueCount, call>>
         ELSE /\ nodes' = st.nodes
              /\ num_keys' = num_keys + 1
              /\ call' = [active |-> TRUE, k |-> k, v |-> v, temp |-> st.temp,
                          new_node |-> st.new_node, height |-> st.height,
                          max_flips |-> MaxFlips(num_keys + 1),
                          entry_layers |-> num_layers]
              /\ result' = [Outcome("inserting", k) EXCEPT !.num = v]
              /\ UNCHANGED <<head, tail, num_layers, trueCount>>

\* one iteration of the promotion loop of the running insert
InsertPromote ==
  LET st == PromoteOnce([nodes |-> nodes, head |-> head, tail |-> tail,
                         num_layers |-> num_layers, temp |-> call.temp,
                         new_node |-> call.new_node, height |-> call.height],
                        call.k, call.v)
  IN  /\ call.active
      /\ PromoteCond(call.k, call.height, call.max_flips)
      /\ nodes' = st.nodes
      /\ head' = st.head
      /\ tail' = st.tail
      /\ num_layers' = st.num_layers
      /\ call' = [call EXCEPT !.temp = st.temp, !.new_node = st.new_node,
                              !.height = st.height]
      /\ UNCHANGED <<num_keys, result, history, dtor>>

\* the loop condition is false: return true;
InsertReturn ==
  /\ call.active
  /\ ~PromoteCond(call.k, call.height, call.max_flips)
  /\ result' = [RetBool("insert", call.k, TRUE) EXCEPT !.num = call.v]
  /\ trueCount' = trueCount + 1
  /\ call' = Idle
  /\ UNCHANGED <<list, inserted, written, cutoff, dtor>>

\* the calls that store or read values, with every value
Next ==
  \/ \E k \in Keys, v \in Values : Insert(k, v)
  \/ \E k \in Keys, v \in Values : FindAssign(k, v)
  \/ \E k \in Keys : Find(k)
  \/ \E k \in Keys : FindConst(k)
  \/ \E k \in Keys : Height(k)
  \/ Size
  \/ NumLayers

Spec == Init /\ [][Next]_vars

\* the value the tests store under key k: sl.insert(i, (100 + i))
TestValue(k) == 100 + k

\* every call of the interface, on a wider range of keys
NextOrder ==
  \/ \E k \in OrderKeys : Insert(k, TestValue(k))
  \/ \E k \in OrderKeys : Find(k)
  \/ \E k \in OrderKeys : FindConst(k)
  \/ \E k \in OrderKeys : Height(k)
  \/ \E k \in OrderKeys : NextKey(k)
  \/ \E k \in OrderKeys : PreviousKey(k)
  \/ \E k \in OrderKeys : IsSmallestKey(k)
  \/ \E k \in OrderKeys : IsLargestKey(k)
  \/ AllKeysInOrder
  \/ Size
  \/ IsEmpty
  \/ NumLayers

SpecOrder == Init /\ [][NextOrder]_vars

\* the byte values of the keys given to flipCoin; the first byte of an
\* unsigned key stays below 128 here
FlipBytes == {0, 255} \cup {2 ^ i : i \in 0..MaxFlipBit}
FlipKeys ==
  {b0 + 256 * b1 + 65536 * b2 + 16777216 * b3 :
     b0 \in FlipBytes, b1 \in FlipBytes, b2 \in FlipBytes,
     b3 \in FlipBytes \ {255}}
FlipStrings == UNION {[1..n -> FlipBytes] : n \in 0..MaxStringLen}

\* the arguments of a call of flipCoin that has not been made yet
FlipArgs ==
  {[Outcome("args", key) EXCEPT !.num = n] :
     key \in FlipKeys, n \in 0..MaxAttempt}
FlipStringArgs ==
  {[Outcome("stringArgs", -1) EXCEPT !.num = n, !.keys = key] :
     key \in FlipStrings, n \in 0..MaxAttempt}

\* a new list and the arguments of one call of flipCoin
InitFlip ==
  /\ nodes = InitNodes
  /\ head = InitHead
  /\ tail = InitTail
  /\ num_layers = 2
  /\ num_keys = 0
  /\ result \in FlipArgs \cup FlipStringArgs
  /\ inserted = {}
  /\ trueCount = 0
  /\ written = [x \in {} |-> DefaultValue]
  /\ cutoff = [x \in {} |-> 0]
  /\ call = Idle
  /\ dtor = Alive

\* the call flipCoin(key, previousFlips) on an unsigned key
FlipCoin ==
  /\ result.op = "args"
  /\ Query([result EXCEPT !.op = "flipCoin",
                          !.bool = flipCoin(result.key, result.num)])

\* the call flipCoin(key, previousFlips) on a string key
FlipCoinString ==
  /\ result.op = "stringArgs"
  /\ Query([result EXCEPT !.op = "flipCoinString",
                          !.bool = flipCoinString(result.keys, result.num)])

NextFlip == FlipCoin \/ FlipCoinString

SpecFlip == InitFlip /\ [][NextFlip]_vars

\* the keys inserted in any order: OrderKeys and the all-heads key
AnyOrderKeys == OrderKeys \cup {MagicKey}

\* inserts in any order, run one loop iteration at a time
NextAnyOrder ==
  \/ \E k \in AnyOrderKeys : InsertBegin(k, TestValue(k))
  \/ InsertPromote
  \/ InsertReturn
  \/ AllKeysInOrder

SpecAnyOrder == Init /\ [][NextAnyOrder]_vars

\* any sequence of inserts, then the destructor
NextDestroy ==
  \/ ~dtor.done /\ \E k \in AnyOrderKeys : Insert(k, TestValue(k))
  \/ Destroy

SpecDestroy == Init /\ [][NextDestroy]_vars

\* the number of keys of the largest test
MillionKeys == 1000000

\* the list as the constructor leaves it
NewList ==
  [nodes |-> InitNodes, head |-> InitHead, tail |-> InitTail,
   num_layers |-> 2, num_keys |-> 0]

RECURSIVE InsertRun(_, _, _)
\* for (k = from; k <= to; k++) insert(k, TestValue(k)), on the list l
InsertRun(l, from, to) ==
  IF from > to THEN l
  ELSE InsertRun(InsertOp(l, from, TestValue(from)).list, from + 1, to)

RECURSIVE InsertAscending(_, _)
\* insert(k, TestValue(k)) for the keys k of the set S in ascending
\* order, on the list l
InsertAscending(l, S) ==
  IF S = {} THEN l
  ELSE LET k == CHOOSE x \in S : \A y \in S : x <= y
       IN  InsertAscending(InsertOp(l, k, TestValue(k)).list, S \ {k})

\* the list of the test that inserts the keys "A", "B", .., "H": a string
\* of one char has that char as its fingerprint, as the integer of the
\* same code has, and the strings are ordered as their codes are
LetterA == 65
LetterH == 72
LettersList == InsertRun(NewList, LetterA, LetterH)

\* the next key of the ascending run 0, 1, 2, ..
NextStepKey == Cardinality(inserted \ {MagicKey})
StepKeys == {MagicKey} \cup {k \in {NextStepKey} : k <= MaxStepKey}
\* the keys asked for: MagicKey, the last key of the run, the next one
StepQueryKeys == {MagicKey, NextStepKey} \cup {k \in {NextStepKey - 1} : k >= 0}

\* insert in steps, as the tests with MAGIC_VAL call it: sl.insert(i, i)
\* and sl.insert(MAGIC_VAL, MAGIC_VAL), the value being the key
NextStep ==
  \/ \E k \in StepKeys : InsertBegin(k, k)
  \/ InsertPromote
  \/ InsertReturn
  \/ \E k \in StepQueryKeys : Height(k)
  \/ NumLayers
  \/ Size

SpecStep == Init /\ [][NextStep]_vars

\* a call that has started runs to its return: nothing preempts it
SpecStepFair == SpecStep /\ WF_vars(InsertPromote) /\ WF_vars(InsertReturn)

\* ================================================================ claims
SetMin(S) == CHOOSE x \in S : \A y \in S : x <= y
SetMax(S) == CHOOSE x \in S : \A y \in S : x >= y
StrictlyAscending(ks) == \A i \in 1..(Len(ks) - 1) : ks[i] < ks[i + 1]
Elements(ks) == {ks[i] : i \in 1..Len(ks)}
Absent == OrderKeys \ inserted

\* C1: whatever inserts were made (any order, duplicates included),
\* allKeysInOrder() returns the distinct keys inserted so far, each once,
\* in strictly ascending order.
C1_AllKeysAscending ==
  LET ks == allKeysInOrderOp.keys
  IN  /\ ~allKeysInOrderOp.thrown
      /\ StrictlyAscending(ks)
      /\ Elements(ks) = inserted
      /\ Len(ks) = Cardinality(inserted)
      /\ (result.op = "allKeysInOrder" => result = allKeysInOrderOp)

\* allKeysInOrder() returned three keys or more, one of them a key that
\* occupies an upper layer and is not the largest
C1_Witness ==
  /\ result.op = "allKeysInOrder"
  /\ Len(result.keys) >= 4
  /\ \E k \in inserted : k < SetMax(inserted) /\ heightOp(k).num >= 3

\* C2: insert(k, v2) on a present key returns false and changes nothing:
\* no field of any node (keys, values, links), not head, tail, num_layers
\* or num_keys, which are all that find, size, numLayers and height read.
C2_DuplicateInsertNoMutation ==
  [][(result'.op = "insert" /\ result'.key \in inserted)
       => /\ result'.bool = FALSE
          /\ ~result'.thrown
          /\ UNCHANGED list
          /\ UNCHANGED written]_vars

\* a duplicate insert carrying a value other than the stored one was refused
C2_Witness ==
  /\ result.op = "insert"
  /\ result.bool = FALSE
  /\ result.key \in DOMAIN written
  /\ result.num # written[result.key]
  /\ heightOp(result.key).num >= 2

\* C3: insert never throws and returns true exactly for an absent key;
\* size() is the number of distinct keys inserted, which is the number of
\* insert calls that returned true; isEmpty() iff size() is 0.
C3_InsertAndSize ==
  /\ [](/\ sizeOp.num = Cardinality(inserted)
        /\ sizeOp.num = trueCount
        /\ ~sizeOp.thrown /\ ~isEmptyOp.thrown
        /\ (isEmptyOp.bool <=> sizeOp.num = 0)
        /\ (result.op = "insert" => ~result.thrown))
  /\ [][result'.op = "insert"
          => (result'.bool <=> result'.key \notin inserted)]_vars

\* both answers of insert were seen: two keys accepted, then one refused
C3_Witness ==
  /\ result.op = "insert"
  /\ result.bool = FALSE
  /\ trueCount >= 2
  /\ num_keys = trueCount

\* C4: find(k), in both overloads, returns the value last stored for k:
\* the value of the insert that added k, or the value last assigned
\* through the reference returned by the mutable find.
C4_FindRoundTrip ==
  /\ DOMAIN written = inserted
  /\ \A k \in inserted :
       /\ ~findOp(k).thrown /\ findOp(k).num = written[k]
       /\ ~findConstOp(k).thrown /\ findConstOp(k).num = written[k]
  /\ (result.op \in {"find", "findConst"} /\ ~result.thrown
        => result.num = written[result.key])

\* find returned the assigned value of a key of height 2 or more whose
\* upper node still holds the value it was inserted with, two other keys
\* being present
C4_Witness ==
  /\ result.op = "find"
  /\ ~result.thrown
  /\ heightOp(result.key).num >= 2
  /\ nodes[nodes[findRef(result.key)].top].value # result.num
  /\ Cardinality(inserted) >= 3

\* C5: for every absent key, on the empty list too, find(k) and height(k)
\* throw, and a call that threw left the list as it was.
C5_AbsentKeyNotFound ==
  /\ [](\A k \in Absent :
          findOp(k).thrown /\ findConstOp(k).thrown /\ heightOp(k).thrown)
  /\ [][(result'.op \in {"find", "findConst", "height"} /\ result'.thrown)
          => UNCHANGED list]_vars

\* height threw for an absent key lying between two present keys
C5_Witness ==
  /\ result.op = "height"
  /\ result.thrown
  /\ result.key \in Absent
  /\ \E a, b \in inserted : a < result.key /\ result.key < b

\* C6: for every absent key, on the empty list too, isSmallestKey(k) and
\* isLargestKey(k) throw instead of returning a boolean.
C6_SmallestLargestThrowWhenAbsent ==
  \A k \in Absent : isSmallestKeyOp(k).thrown /\ isLargestKeyOp(k).thrown

\* C7: for every present key k, isSmallestKey(k) is true iff k is the
\* minimum of the inserted keys and isLargestKey(k) iff it is the maximum.
C7_SmallestLargestCorrect ==
  \A k \in inserted :
    /\ ~isSmallestKeyOp(k).thrown
    /\ ~isLargestKeyOp(k).thrown
    /\ (isSmallestKeyOp(k).bool <=> k = SetMin(inserted))
    /\ (isLargestKeyOp(k).bool <=> k = SetMax(inserted))

\* isLargestKey answered true on a list of three keys or more
C7_Witness ==
  /\ result.op = "isLargestKey"
  /\ result.bool
  /\ result.key \in inserted
  /\ Cardinality(inserted) >= 3
  /\ isSmallestKeyOp(SetMin(inserted)).bool
  /\ ~isSmallestKeyOp(result.key).bool

\* C8: for every key k, isSmallestKey(k) and isLargestKey(k) are not both
\* true unless the list holds exactly one key, and then both are true for
\* that key.
C8_SmallestLargestExclusive ==
  /\ \A k \in OrderKeys :
       (isSmallestKeyOp(k).bool /\ isLargestKeyOp(k).bool) => num_keys = 1
  /\ num_keys = 1 =>
       \A k \in inserted : isSmallestKeyOp(k).bool /\ isLargestKeyOp(k).bool

\* C9: nextKey(k) of a present key that is not the largest is the least
\* present key above k; previousKey(k) of a present key that is not the
\* smallest is the greatest present key below k.
C9_NeighbourKeys ==
  \A k \in inserted :
    /\ k # SetMax(inserted) =>
         /\ ~nextKeyOp(k).thrown
         /\ nextKeyOp(k).num = SetMin({x \in inserted : x > k})
    /\ k # SetMin(inserted) =>
         /\ ~previousKeyOp(k).thrown
         /\ previousKeyOp(k).num = SetMax({x \in inserted : x < k})

\* previousKey skipped an absent key: it returned a key at least 2 below
C9_Witness ==
  /\ result.op = "previousKey"
  /\ ~result.thrown
  /\ result.num + 1 < result.key
  /\ result.num \in inserted
  /\ nextKeyOp(result.num).num = result.key

\* C10: nextKey(k) throws exactly when k is absent or the largest present
\* key, previousKey(k) exactly when k is absent or the smallest.
C10_NeighbourNotFound ==
  \A k \in OrderKeys :
    /\ nextKeyOp(k).thrown <=> (k \notin inserted \/ k = SetMax(inserted))
    /\ previousKeyOp(k).thrown <=> (k \notin inserted \/ k = SetMin(inserted))

\* nextKey threw for the largest of several keys, whose previousKey exists
C10_Witness ==
  /\ result.op = "nextKey"
  /\ result.thrown
  /\ result.key \in inserted
  /\ Cardinality(inserted) >= 2
  /\ ~previousKeyOp(result.key).thrown

\* a layer that holds only its two sentinels: h is a -inf sentinel whose
\* next is the +inf sentinel t, whose previous is h
SentinelOnly(h, t) ==
  /\ nodes[h].n_inf /\ ~nodes[h].p_inf
  /\ nodes[t].p_inf /\ ~nodes[t].n_inf
  /\ nodes[h].next = t /\ nodes[t].previous = h
  /\ nodes[h].previous = NULL /\ nodes[t].next = NULL

\* C11: a newly constructed list is exactly two sentinel-only layers, the
\* upper linked to the lower and back, with size() = 0, isEmpty() true,
\* numLayers() = 2 and allKeysInOrder() empty.
C11_NewListShape ==
  result.op = "SkipList" =>
    LET bh == nodes[head].bottom
        bt == nodes[tail].bottom
    IN  /\ Cardinality(DOMAIN nodes) = 4
        /\ Cardinality({head, tail, bh, bt}) = 4
        /\ {head, tail, bh, bt} = DOMAIN nodes
        /\ SentinelOnly(head, tail)
        /\ SentinelOnly(bh, bt)
        /\ nodes[bh].top = head /\ nodes[bt].top = tail
        /\ nodes[head].top = NULL /\ nodes[tail].top = NULL
        /\ nodes[bh].bottom = NULL /\ nodes[bt].bottom = NULL
        /\ sizeOp.num = 0
        /\ isEmptyOp.bool
        /\ numLayersOp.num = 2
        /\ allKeysInOrderOp.keys = <<>>
        /\ ~allKeysInOrderOp.thrown

\* the list as the constructor leaves it, before any call
C11_Witness ==
  /\ result.op = "SkipList"
  /\ num_layers = 2
  /\ num_keys = 0
  /\ inserted = {}

\* C12: every present key has a height of at least 1 and at most the
\* cutoff of the insert call that added it (12 if the key count was at
\* most 16, else 3 * ceil(log2(key count))).
C12_HeightWithinCutoff ==
  \A k \in inserted :
    /\ ~heightOp(k).thrown
    /\ heightOp(k).num >= 1
    /\ heightOp(k).num <= cutoff[k]

\* the all-heads key was added as the 17th or a later key and stands at
\* its cutoff, next to a key of height 1
C12_Witness ==
  /\ ~call.active
  /\ MagicKey \in inserted
  /\ cutoff[MagicKey] > SmallListFlips
  /\ heightOp(MagicKey).num = cutoff[MagicKey]
  /\ heightOp(0).num = 1

\* bit i of the fingerprint of an integer key, as the specification gives
\* it: the parity of bit i over the four bytes of the key
SpecFingerprintBit(k, i) ==
  LET Bit(j) == (((k \div (256 ^ j)) % 256) \div (2 ^ i)) % 2
  IN  (Bit(0) + Bit(1) + Bit(2) + Bit(3)) % 2 = 1

\* the attempt indices 0..7 at which the fingerprint of k has a clear bit
ClearBits(k) == {i \in 0..7 : ~SpecFingerprintBit(k, i)}

\* min(M, 1 + t): t is the index of the lowest clear bit of the
\* fingerprint, and has no bound when all eight bits are set
SpecHeight(k, M) ==
  IF ClearBits(k) = {} THEN M
  ELSE LET t == SetMin(ClearBits(k))
       IN  IF 1 + t < M THEN 1 + t ELSE M

\* the heights the specification lists for the keys 0..9
SimpleHeights == <<1, 2, 1, 3, 1, 2, 1, 4, 1, 2>>

\* the key of the insert call that has not returned yet, if there is one
Running == IF call.active THEN {call.k} ELSE {}

\* C13: the height of a present key k is min(M, 1 + t), t the number of
\* consecutive set bits of the fingerprint of k from bit 0 and M the
\* cutoff at its insertion; the keys 0..9 get 1,2,1,3,1,2,1,4,1,2.
C13_HeightFormula ==
  /\ \A k \in inserted \ Running :
       heightOp(k).num = SpecHeight(k, cutoff[k])
  /\ \A i \in 1..Len(SimpleHeights) :
       (i - 1) \in inserted \ Running =>
         heightOp(i - 1).num = SimpleHeights[i]

\* the keys 0..31 and the all-heads key are present: 31 has five set bits
\* below its lowest clear bit, the all-heads key stopped at its cutoff
C13_Witness ==
  /\ ~call.active
  /\ 31 \in inserted
  /\ MagicKey \in inserted
  /\ heightOp(31).num = 6
  /\ heightOp(7).num = 4
  /\ heightOp(MagicKey).num = cutoff[MagicKey]

\* insert(MagicKey) has just returned true
MagicJustInserted ==
  /\ result.op = "insert"
  /\ result.key = MagicKey
  /\ result.bool

\* C14: the cutoff counts the key being inserted: right after the insert
\* of the all-heads key as the c-th key its height is 12 if c <= 16 and
\* 3 * ceil(log2(c)) if c > 16, and numLayers() is that height + 1; as
\* the 11th key 12 and 13 layers, as the 17th 15 and 16, as the 32nd (a
\* power of two) 15, as the 33rd 19 layers.
C14_CutoffCountsNewKey ==
  MagicJustInserted =>
    LET c == sizeOp.num
        h == heightOp(MagicKey).num
    IN  /\ c = Cardinality(inserted)
        /\ c <= 16 => h = 12
        /\ c > 16 => h = 3 * SpecCeilLog2(c)
        /\ numLayersOp.num = h + 1
        /\ c = 11 => h = 12 /\ numLayersOp.num = 13
        /\ c = 16 => h = 12
        /\ c = 17 => h = 15 /\ numLayersOp.num = 16
        /\ c = 32 => h = 3 * 5
        /\ c = 33 => numLayersOp.num = 19

\* the all-heads key has just been inserted as the 17th key, after 0..15
C14_Witness ==
  /\ MagicJustInserted
  /\ Cardinality(inserted) = 17
  /\ heightOp(MagicKey).num = 15
  /\ num_layers = 16

\* C15: insert terminates for every key, the all-heads key included: a
\* running call has made at most cutoff - 1 promotions, and every call
\* that has started returns true.
C15_InsertTerminates ==
  /\ [](call.active => call.height <= cutoff[call.k] - 1)
  /\ call.active ~> (~call.active /\ result.op = "insert" /\ result.bool)

\* the call for the all-heads key has made cutoff - 1 promotions, more
\* than 12, and the oracle still answers true
C15_Witness ==
  /\ call.active
  /\ call.k = MagicKey
  /\ call.height = cutoff[MagicKey] - 1
  /\ call.height > SmallListFlips
  /\ flipCoin(call.k, call.height)

\* C16: numLayers() is at least 2 and never decreases; an insert call
\* raises it by at most the number of promotions the call has made, and
\* not at all when it returns false.
C16_LayersMonotone ==
  /\ [](numLayersOp.num >= 2)
  /\ [](call.active =>
          /\ num_layers >= call.entry_layers
          /\ num_layers - call.entry_layers <= call.height)
  /\ [][num_layers' >= num_layers]_vars
  /\ [][(result'.op = "insert" /\ ~result'.bool) =>
          num_layers' = num_layers]_vars
  /\ [][(call.active /\ ~call'.active) => num_layers' = num_layers]_vars

\* a call has made three promotions or more, of which some but not all
\* added a layer
C16_Witness ==
  /\ call.active
  /\ call.height >= 3
  /\ num_layers > call.entry_layers
  /\ num_layers - call.entry_layers < call.height

\* the heights of the present keys
Heights == {heightOp(k).num : k \in inserted}

\* C17: numLayers() is 1 + the greatest height of a present key, and 2
\* when no key is present; after the inserts of "A".."H" it is 5.
C17_LayersFollowTallest ==
  /\ numLayersOp.num = IF inserted = {} THEN 2 ELSE 1 + SetMax(Heights)
  /\ LettersList.num_layers = 5

\* ten keys or more, none of them the all-heads key: the tallest tower is
\* the four nodes of key 7, which is not the key inserted last
C17_Witness ==
  /\ ~call.active
  /\ Cardinality(inserted) >= 10
  /\ MagicKey \notin inserted
  /\ heightOp(7).num = 4
  /\ num_layers = 5

\* C18: in every reachable state, the states between two promotions of a
\* running insert included, the topmost layer holds only its two
\* sentinels.
C18_TopLayerEmpty ==
  /\ SentinelOnly(head, tail)
  /\ nodes[head].top = NULL
  /\ nodes[tail].top = NULL

\* a running insert has just promoted its key into what was the top
\* layer, and has more promotions to make
C18_Witness ==
  /\ call.active
  /\ call.height >= 2
  /\ num_layers = call.height + 2
  /\ num_layers > call.entry_layers
  /\ PromoteCond(call.k, call.height, call.max_flips)
  /\ nodes[nodes[head].bottom].next = call.new_node

\* the nodes that hold a key
RealNodes == {a \in DOMAIN nodes : ~nodes[a].n_inf /\ ~nodes[a].p_inf}
NodesOf(k) == {a \in RealNodes : nodes[a].key = k}

RECURSIVE LeftEnd(_)
\* the first node of the layer of a
LeftEnd(a) == IF nodes[a].previous = NULL THEN a ELSE LeftEnd(nodes[a].previous)

RECURSIVE Depth(_)
\* the number of nodes below a
Depth(a) == IF nodes[a].bottom = NULL THEN 0 ELSE 1 + Depth(nodes[a].bottom)

\* the index of the layer of a, 0 the bottom layer
LayerOf(a) == Depth(LeftEnd(a))

\* C19: a key in a layer L > 0 is in every layer below, its nodes linked
\* to each other upward and downward (node.top.bottom = node, same key),
\* and height(k) is the number of layers that hold k.
C19_TowersContiguous ==
  /\ \A a \in RealNodes :
       LET below == nodes[a].bottom
           above == nodes[a].top
       IN  /\ LayerOf(a) = 0 <=> below = NULL
           /\ below # NULL =>
                /\ below \in RealNodes
                /\ nodes[below].key = nodes[a].key
                /\ nodes[below].top = a
                /\ LayerOf(below) = LayerOf(a) - 1
           /\ above # NULL =>
                /\ above \in RealNodes
                /\ nodes[above].key = nodes[a].key
                /\ nodes[above].bottom = a
  /\ \A k \in inserted :
       LET layers == {LayerOf(a) : a \in NodesOf(k)}
       IN  /\ layers = 0..(Cardinality(layers) - 1)
           /\ Cardinality(NodesOf(k)) = Cardinality(layers)
           /\ heightOp(k).num = Cardinality(layers)

\* towers of one, three and five nodes next to the tower of the all-heads
\* key
C19_Witness ==
  /\ ~call.active
  /\ Cardinality(NodesOf(0)) = 1
  /\ Cardinality(NodesOf(3)) = 3
  /\ Cardinality(NodesOf(15)) = 5
  /\ Cardinality(NodesOf(MagicKey)) >= SmallListFlips

\* the bound of the specification on numLayers() with n keys present
SpecLayerBound(n) == IF n <= 16 THEN 13 ELSE 3 * SpecCeilLog2(n) + 1

\* C20: with n keys present numLayers() is at most 13 if n <= 16 and at
\* most 3 * ceil(log2(n)) + 1 if n > 16; for 1,000,000 keys that is 61.
C20_LayerBound ==
  /\ numLayersOp.num <= SpecLayerBound(sizeOp.num)
  /\ sizeOp.num = Cardinality(inserted)
  /\ SpecLayerBound(MillionKeys) = 61
  /\ MaxFlips(MillionKeys) + 1 <= 61

\* the bound is met with 33 keys present: 19 layers
C20_Witness ==
  /\ ~call.active
  /\ num_keys = 33
  /\ num_layers = SpecLayerBound(33)
  /\ num_layers = 19

\* bit i of the XOR of the chars of a string key: the parity of bit i
\* over its chars
SpecStringBit(key, i) ==
  Cardinality({j \in 1..Len(key) : (key[j] \div (2 ^ i)) % 2 = 1}) % 2 = 1

\* C21: flipCoin(key, n) is true exactly when bit (n mod 8) of the XOR of
\* the bytes of the key is set, for the four bytes of an unsigned key and
\* for the chars of a string key, so that the answer is a function of
\* the key and n alone, and flipCoin(key, n) = flipCoin(key, n + 8).
C21_FlipCoinPure ==
  /\ result.op = "flipCoin" =>
       /\ result.bool <=> SpecFingerprintBit(result.key, result.num % 8)
       /\ result.bool <=> flipCoin(result.key, result.num + 8)
  /\ result.op = "flipCoinString" =>
       /\ result.bool <=> SpecStringBit(result.keys, result.num % 8)
       /\ result.bool <=> flipCoinString(result.keys, result.num + 8)

\* heads at an attempt index past 7 for a key whose four bytes are all
\* non-zero and whose two low bytes cancel
C21_Witness ==
  /\ result.op = "flipCoin"
  /\ result.num >= 8
  /\ result.bool
  /\ result.key \div 16777216 > 0
  /\ (result.key \div 65536) % 256 > 0
  /\ (result.key \div 256) % 256 = result.key % 256
  /\ result.key % 256 > 0

\* the addresses of a sequence of released nodes
ReleasedSet(d) == {d.freed[i] : i \in 1..Len(d.freed)}

\* C22: the destructor, run on a list built by any sequence of inserts,
\* releases every allocated node exactly once: none twice, none left,
\* and none read after its release.
C22_DestructorReleasesAll ==
  [][dtor'.done /\ ~dtor.done =>
       /\ ReleasedSet(dtor') = DOMAIN nodes
       /\ Len(dtor'.freed) = Cardinality(DOMAIN nodes)
       /\ ~dtor'.stale
       /\ DOMAIN nodes' = {}
       /\ head' = NULL]_vars

\* the destructor has run on a list of five keys or more, the all-heads
\* key among them: 13 layers of sentinels and a tower of 12 nodes
C22_Witness ==
  /\ dtor.done
  /\ Cardinality(inserted) >= 5
  /\ MagicKey \in inserted
  /\ num_layers = 13
  /\ Len(dtor.freed) >= 2 * 13 + 12 + 4

RECURSIVE ScanLayer0(_, _)
\* the linear scan of layer 0 from the node a: the last node before the
\* +inf sentinel or before the first key greater than q
ScanLayer0(a, q) ==
  LET n == nodes[a].next
  IN  IF nodes[n].p_inf \/ nodes[n].key > q THEN a ELSE ScanLayer0(n, q)

\* C23: for every query key q the descent through the layers ends at the
\* layer-0 node a linear scan of layer 0 ends at: the node of the
\* largest present key <= q, or the layer-0 -inf sentinel if there is
\* none.
C23_DescentIsLinearScan ==
  \A q \in OrderKeys :
    LET d     == Descend(nodes, head, q)
        lower == {k \in inserted : k <= q}
    IN  /\ d = ScanLayer0(Bottom(nodes, head), q)
        /\ nodes[d].bottom = NULL
        /\ lower = {} => nodes[d].n_inf /\ d = Bottom(nodes, head)
        /\ lower # {} =>
             /\ d \in RealNodes
             /\ nodes[d].key = SetMax(lower)

\* the descent for the absent key 4 leaves the tower of 3 in an upper
\* layer and ends at its layer-0 node, with 5 present after it; for the
\* absent key 0 it ends at the sentinel
C23_Witness ==
  /\ {1, 3, 5} \subseteq inserted
  /\ 0 \notin inserted
  /\ 4 \notin inserted
  /\ nodes[Descend(nodes, head, 4)].key = 3
  /\ nodes[Descend(nodes, head, 4)].top # NULL
  /\ nodes[Descend(nodes, head, 0)].n_inf

RECURSIVE SentinelsBelow(_)
\* the -inf sentinels from the node h down its bottom links, h first
SentinelsBelow(h) ==
  IF nodes[h].bottom = NULL THEN <<h>>
  ELSE <<h>> \o SentinelsBelow(nodes[h].bottom)

RECURSIVE LayerFrom(_)
\* the nodes of a layer from the node a along next, a first
LayerFrom(a) ==
  IF nodes[a].next = NULL THEN <<a>> ELSE <<a>> \o LayerFrom(nodes[a].next)

\* the layer that starts at h is a doubly-linked list from one -inf
\* sentinel to one +inf sentinel with strictly ascending keys in between
WellFormedLayer(h) ==
  LET l == LayerFrom(h)
      n == Len(l)
  IN  /\ n >= 2
      /\ nodes[l[1]].previous = NULL
      /\ nodes[l[n]].next = NULL
      /\ \A i \in 1..n : nodes[l[i]].n_inf <=> i = 1
      /\ \A i \in 1..n : nodes[l[i]].p_inf <=> i = n
      /\ \A i \in 1..(n - 1) : nodes[nodes[l[i]].next].previous = l[i]
      /\ \A i \in 2..(n - 2) : nodes[l[i]].key < nodes[l[i + 1]].key

\* C24: every layer, the upper ones as well as layer 0, starts at one
\* -inf sentinel with no previous, ends at one +inf sentinel with no
\* next, has n.next.previous = n throughout and strictly ascending keys.
C24_LayersWellFormed ==
  LET hs == SentinelsBelow(head)
  IN  /\ \A i \in 1..Len(hs) : WellFormedLayer(hs[i])
      /\ \A a \in DOMAIN nodes : \E i \in 1..Len(hs) : LeftEnd(a) = hs[i]

\* a key was spliced into layer 1 between two keys already there, below
\* the tower of the all-heads key
C24_Witness ==
  /\ ~call.active
  /\ result.op = "insert"
  /\ result.key = 3
  /\ result.bool
  /\ {1, 5, MagicKey} \subseteq inserted
  /\ Len(LayerFrom(nodes[Bottom(nodes, head)].top)) >= 6

\* the running insert makes a promotion in this step
Promotes == call.active /\ call'.active /\ call'.height = call.height + 1

\* the promotion of this step adds a topmost sentinel-only layer
GrowsLayer ==
  /\ num_layers' = num_layers + 1
  /\ head' # head
  /\ nodes'[head'].bottom = head
  /\ nodes'[tail'].bottom = tail

\* C25 as claimed: a promotion adds a layer exactly when the layer
\* immediately above the layer of the node does not exist, that is when
\* the layer of the node has no vertical-above neighbour.
C25_GrowsWhenNoLayerAbove ==
  [][Promotes =>
       (GrowsLayer <=> nodes[LeftEnd(call.new_node)].top = NULL)]_vars

\* C25 amended: a promotion adds a layer, and increments num_layers,
\* exactly when the layer immediately above the layer of the node is the
\* topmost layer, that is when that layer has no vertical-above
\* neighbour; otherwise num_layers, head and tail stay as they are.
C25_GrowsWhenLayerAboveIsTop ==
  [][Promotes =>
       LET above == nodes[LeftEnd(call.new_node)].top
       IN  /\ above # NULL
           /\ GrowsLayer <=> nodes[above].top = NULL
           /\ GrowsLayer <=> call.height + 2 >= num_layers
           /\ GrowsLayer \/ (num_layers' = num_layers /\ head' = head
                             /\ tail' = tail)]_vars

\* a call has made two promotions: one into a layer below the topmost
\* one, which added no layer, and one into the topmost, which added one
C25_Witness ==
  /\ call.active
  /\ call.height = 2
  /\ num_layers = call.entry_layers + 1
  /\ num_layers = 4
  /\ Cardinality(inserted) >= 3

\* the number of present keys below k
Rank(k) == Cardinality({x \in inserted : x < k})

\* two results agree in what a caller can see of them
SameOutcome(r1, r2) ==
  /\ r1.thrown = r2.thrown
  /\ r1.bool = r2.bool
  /\ r1.num = r2.num

\* C26: no outcome depends on the default key kept in a sentinel: a call
\* for an absent key k1, the default key 0 included, has the outcome of
\* the same call for any absent key k2 of the same rank.
C26_SentinelKeyIrrelevant ==
  \A k1 \in Absent, k2 \in Absent :
    Rank(k1) = Rank(k2) =>
      /\ SameOutcome(findOp(k1), findOp(k2))
      /\ SameOutcome(heightOp(k1), heightOp(k2))
      /\ SameOutcome(nextKeyOp(k1), nextKeyOp(k2))
      /\ SameOutcome(previousKeyOp(k1), previousKeyOp(k2))
      /\ InsertOp(Cur, k1, TestValue(k1)).ret
           = InsertOp(Cur, k2, TestValue(k2)).ret
      /\ SameOutcome(isSmallestKeyOp(k1), isSmallestKeyOp(k2))
      /\ SameOutcome(isLargestKeyOp(k1), isLargestKeyOp(k2))

\* the keys of the real nodes of the layer that starts at the sentinel h
KeysFrom(h) ==
  LET l == LayerFrom(h)
  IN  [i \in 1..(Len(l) - 2) |-> nodes[l[i + 1]].key]

\* the keys of layer i, 0 the bottom layer; none if there is no layer i
LayerKeys(i) ==
  LET hs == SentinelsBelow(head)
  IN  IF i < Len(hs) THEN KeysFrom(hs[Len(hs) - i]) ELSE <<>>

RECURSIVE KeysAfterIn(_, _)
\* the keys of the real nodes after the node a of a layer of the heap ns
KeysAfterIn(ns, a) ==
  LET n == ns[a].next
  IN  IF ns[n].p_inf THEN <<>> ELSE <<ns[n].key>> \o KeysAfterIn(ns, n)

RECURSIVE LayersIn(_, _)
\* the key sequences of the layers of the heap ns from the sentinel h
\* down, the layer of h first
LayersIn(ns, h) ==
  IF h = NULL THEN <<>>
  ELSE <<KeysAfterIn(ns, h)>> \o LayersIn(ns, ns[h].bottom)

\* height(k) and the value of find(k) on the heap ns with top sentinel h,
\* 0 and -1 when the call throws
HeightIn(ns, h, k) ==
  LET temp == Descend(ns, h, k)
  IN  IF ns[temp].key # k \/ ns[temp].n_inf THEN 0 ELSE CountTop(ns, temp)
ValueIn(ns, h, k) ==
  LET temp == Descend(ns, h, k)
  IN  IF ns[temp].key # k \/ ns[temp].n_inf THEN -1 ELSE ns[temp].value

\* the keys of the sequence ks that are in the set S, in their order
KeepKeys(ks, S) == SelectSeq(ks, LAMBDA x : x \in S)

\* the keys present before the call that is running or about to start
Others == inserted \ Running

\* the layers before and after the step, paired from the bottom, hold
\* the keys of Others in the same order
SameOrderOfOthers ==
  LET old == LayersIn(nodes, head)
      new == LayersIn(nodes', head')
  IN  /\ Len(new) >= Len(old)
      /\ \A i \in 0..(Len(old) - 1) :
           KeepKeys(new[Len(new) - i], Others)
             = KeepKeys(old[Len(old) - i], Others)
      /\ \A i \in Len(old)..(Len(new) - 1) :
           KeepKeys(new[Len(new) - i], Others) = <<>>

\* C27: an insert of a new key leaves every other present key as it
\* was, in each of its steps: its height, the value find returns for it
\* and the order of the other keys in every layer.
C27_InsertFrame ==
  /\ [](\A k \in inserted :
          /\ heightOp(k).num = HeightIn(nodes, head, k)
          /\ findOp(k).num = ValueIn(nodes, head, k)
          /\ ~heightOp(k).thrown /\ ~findOp(k).thrown
          /\ LayersIn(nodes, head)[num_layers] = LayerKeys(0))
  /\ [][/\ \A k \in Others :
            /\ HeightIn(nodes', head', k) = HeightIn(nodes, head, k)
            /\ ValueIn(nodes', head', k) = ValueIn(nodes, head, k)
       /\ SameOrderOfOthers]_vars

\* the insert of 3 has returned true with towers on both sides of it:
\* 1 and 5 of height 2, the all-heads key of height 12
C27_Witness ==
  /\ ~call.active
  /\ result.op = "insert"
  /\ result.key = 3
  /\ result.bool
  /\ {1, 2, 4, 5, MagicKey} \subseteq inserted
  /\ LayerKeys(1) = <<1, 3, 5, MagicKey>>
  /\ LayerKeys(2) = <<3, MagicKey>>

\* the present keys inserted into a new list in ascending order
AscendingList == InsertAscending(NewList, inserted)

\* C28: inserts of keys without an all-ones fingerprint commute: in
\* whatever order the present keys were inserted, every layer holds the
\* key sequence, every key has the height and numLayers() has the value
\* that their insertion in ascending order gives.
C28_InsertsCommute ==
  LET c == AscendingList
  IN  /\ \A k \in inserted : ClearBits(k) # {}
      /\ LayersIn(nodes, head) = LayersIn(c.nodes, c.head)
      /\ \A k \in inserted : heightOp(k).num = HeightIn(c.nodes, c.head, k)
      /\ numLayersOp.num = c.num_layers
      /\ sizeOp.num = c.num_keys

\* every key is present and 0 was inserted last: the order of the calls
\* was not the ascending one, and 3 was spliced under two layers
C28_Witness ==
  /\ result.op = "insert"
  /\ result.key = 0
  /\ result.bool
  /\ OrderKeys \subseteq inserted
  /\ heightOp(3).num = 3
  /\ LayerKeys(1) = <<1, 3, 5>>

RECURSIVE FirstIn(_, _)
\* the first node of the layer of the node a in the heap ns
FirstIn(ns, a) == IF ns[a].previous = NULL THEN a ELSE FirstIn(ns, ns[a].previous)

\* the running insert is about to make one more promotion
AboutToPromote ==
  call.active /\ PromoteCond(call.k, call.height, call.max_flips)

\* the list as the next iteration has it when it starts its walk left:
\* after height++ and the layer it may add
AtWalkLeft ==
  IF NeedsLayer(call.height + 1, num_layers) THEN AddLayer(Cur) ELSE Cur

\* C29: in the promotion loop the walk left from the predecessor stops at
\* a node with a non-null top, at the latest at the -inf sentinel of the
\* layer, which is not in the topmost layer then; the loop dereferences
\* no null pointer when it ascends and splices.
C29_WalkLeftFindsTop ==
  AboutToPromote =>
    LET l     == AtWalkLeft
        stop  == WalkLeft(l.nodes, call.temp)
        first == FirstIn(l.nodes, call.temp)
        up    == l.nodes[stop].top
    IN  /\ call.temp \in DOMAIN l.nodes
        /\ l.nodes[first].n_inf
        /\ l.nodes[first].top # NULL
        /\ first # l.head
        /\ up # NULL
        /\ up \in DOMAIN l.nodes
        /\ l.nodes[up].next # NULL
        /\ l.nodes[up].next \in DOMAIN l.nodes
        /\ call.new_node \in DOMAIN l.nodes

\* the walk passes nodes without a top and stops at the sentinel, in an
\* iteration that has to add a layer first
C29_Witness ==
  /\ AboutToPromote
  /\ NeedsLayer(call.height + 1, num_layers)
  /\ call.height >= 1
  /\ nodes[call.temp].previous # NULL
  /\ nodes[call.temp].top = NULL
  /\ nodes[WalkLeft(nodes, call.temp)].n_inf

\* the last node of the layer of the node a
LastOf(a) == LayerFrom(a)[Len(LayerFrom(a))]

\* C30: num_layers, which numLayers() returns, is the number of layers of
\* the node graph: the length of the chain of -inf sentinels from head
\* down the bottom links and of the chain of +inf sentinels from tail,
\* head and tail being the two ends of the topmost layer.
C30_LayerCountMatchesGraph ==
  LET hs == SentinelsBelow(head)
      ts == SentinelsBelow(tail)
  IN  /\ numLayersOp.num = num_layers
      /\ Len(hs) = num_layers
      /\ Len(ts) = num_layers
      /\ nodes[head].top = NULL
      /\ nodes[tail].top = NULL
      /\ \A i \in 1..Len(hs) : nodes[hs[i]].n_inf
      /\ \A i \in 1..Len(ts) : nodes[ts[i]].p_inf
      /\ \A i \in 1..num_layers : LastOf(hs[i]) = ts[i]
      /\ \A i \in 1..num_layers : LeftEnd(ts[i]) = hs[i]

\* a running insert has added two layers or more and is not done
C30_Witness ==
  /\ AboutToPromote
  /\ num_layers >= call.entry_layers + 2
  /\ num_layers >= 6
  /\ Len(SentinelsBelow(tail)) = num_layers

====
